---- MODULE Spec2Model ----
(***************************************************************************)
(* Model of src/src/vue.rs: the Vue language-server extension.             *)
(*                                                                         *)
(* The extension is single threaded.  The host calls one entry point at a  *)
(* time; a call to server_script_path is modelled step by step (one step   *)
(* per host capability it uses: filesystem probe, registry query, install) *)
(* because the outcome of every such capability is decided by the world    *)
(* outside the extension at the moment it is used.                         *)
(***************************************************************************)
EXTENDS Naturals, Sequences, FiniteSets, TLC

VARIABLES
    did_find_server,        \* VueExtension.did_find_server
    typescript_tsdk_path,   \* VueExtension.typescript_tsdk_path
    server_on_disk,         \* whether SERVER_PATH is a file in the work directory
    installed,              \* npm: package -> Option(version) installed in the work directory
    registry_reachable,     \* whether the package registry can be reached
    os,                     \* current_platform(): the operating system of the host
    pc,                     \* position of the running call, or "idle" / "done"
    call                    \* the running (or last finished) call: inputs, locals, log, result

vars == <<did_find_server, typescript_tsdk_path, server_on_disk, installed, registry_reachable, os, pc, call>>

----------------------------------------------------------------------------
(* Bounds of the model *)

\* number of distinct versions of typescript / the plugin the registry may publish
NumVersions == 2
\* most dependency entries (dependencies + devDependencies) of a manifest
MaxDeps == 1
\* most characters of a completion's label
MaxLabelLen == 2

----------------------------------------------------------------------------
(* Constants of the program *)

SERVER_PATH == "node_modules/@vue/language-server/bin/vue-language-server.js"
PACKAGE_NAME == "@vue/language-server"
TYPESCRIPT_PACKAGE_NAME == "typescript"
TS_PLUGIN_PACKAGE_NAME == "@vue/typescript-plugin"
TYPESCRIPT_TSDK_PATH == "node_modules/typescript/lib"

\* the version server_script_path pins the language server to
PinnedVersion == "2.2.8"

\* Os of zed_extension_api (macOS takes the branch of Linux everywhere)
Platforms == {"Linux", "Windows"}

\* A PathBuf: its leading separator, and the rest of its text
to_string_lossy(path) == path.leading \o path.rest
join(path, rel) == [path EXCEPT !.rest = path.rest \o "/" \o rel]

\* env::current_dir(): the extension's work directory, where npm installs
\* go; inside the extension host a Windows path reads /C:/...
current_dir ==
    [leading |-> "/",
     rest |-> IF os = "Windows" THEN "C:/ext/work/vue" ELSE "ext/work/vue"]
CurrentDir == to_string_lossy(current_dir)

\* as sanitize_windows_path, trimming on every platform
sanitize_every_path(platform, path) == [path EXCEPT !.leading = ""]

\* zed_ext::sanitize_windows_path, lines 303-315
sanitize_windows_path(platform, path) ==
    IF platform \in {"Mac", "Linux"}
    THEN path
    ELSE [path EXCEPT !.leading = ""]

----------------------------------------------------------------------------
(* Option and Result *)

None == <<>>
Some(v) == <<v>>

Ok(v) == [ok |-> TRUE, val |-> v, err |-> ""]
Err(e) == [ok |-> FALSE, val |-> None, err |-> e]
NoResult == [ok |-> FALSE, val |-> None, err |-> "pending"]

----------------------------------------------------------------------------
(* The world outside the extension *)

VersionPool == <<"5.0.0", "5.1.0", "5.2.0", "5.3.0">>
Versions == {VersionPool[i] : i \in 1..NumVersions}
\* versions of @vue/language-server that may be found installed
ServerVersions == {PinnedVersion, "3.0.0"}

Packages == {PACKAGE_NAME, TYPESCRIPT_PACKAGE_NAME, TS_PLUGIN_PACKAGE_NAME}

VersionsOf(pkg) == IF pkg = PACKAGE_NAME THEN ServerVersions ELSE Versions

\* names a manifest may list besides the two the extension looks for
DepNames == {TYPESCRIPT_PACKAGE_NAME, TS_PLUGIN_PACKAGE_NAME}

\* The text of package.json as the worktree returns it.  readable = FALSE:
\* read_text_file fails (no such file).  well_formed = FALSE: the text is not
\* a JSON document of PackageJson's shape.  A field of the document is either
\* absent (None) or a map with entries, of which only the keys matter (an
\* empty map parses to what an absent field parses to).
ManifestFields == {None} \cup {Some(s) : s \in (SUBSET DepNames) \ {{}}}
FieldSize(f) == IF f = None THEN 0 ELSE Cardinality(f[1])
ManifestTexts ==
    {[readable |-> FALSE, well_formed |-> FALSE, dependencies |-> None, devDependencies |-> None],
     [readable |-> TRUE, well_formed |-> FALSE, dependencies |-> None, devDependencies |-> None]}
    \cup
    {m \in [readable : {TRUE}, well_formed : {TRUE},
            dependencies : ManifestFields, devDependencies : ManifestFields] :
        FieldSize(m.dependencies) + FieldSize(m.devDependencies) <= MaxDeps}

\* worktree.root_path() of the projects the host may open
WorktreeRoots == {"/home/u/app"}
Worktrees == [root_path : WorktreeRoots, package_json : ManifestTexts]

----------------------------------------------------------------------------
(* Manifest Reader: PackageJson and the two questions asked of it *)

\* worktree.read_text_file("package.json")
read_text_file(worktree) ==
    IF worktree.package_json.readable
    THEN Ok(worktree.package_json)
    ELSE Err("read_text_file: package.json not found")

\* #[serde(default)]: an absent field is the empty map
serde_default(field) == IF field = None THEN {} ELSE field[1]

\* serde_json::from_str::<PackageJson>, camelCase field names
from_str(text) ==
    IF text.well_formed
    THEN Ok([dependencies |-> serde_default(text.dependencies),
             dev_dependencies |-> serde_default(text.devDependencies)])
    ELSE Err("failed to parse package.json")

\* Result<PackageJson>: the first two statements of both manifest readers
read_package_json(worktree) ==
    LET text == read_text_file(worktree)
    IN IF text.ok THEN from_str(text.val) ELSE text

\* as typescript_exists_for_worktree, looking at devDependencies only
typescript_exists_dev_only(worktree) ==
    LET package_json == read_package_json(worktree)
    IN IF ~package_json.ok THEN package_json
       ELSE Ok(TYPESCRIPT_PACKAGE_NAME \in package_json.val.dev_dependencies)

typescript_exists_for_worktree(worktree) ==
    LET package_json == read_package_json(worktree)
    IN IF ~package_json.ok THEN package_json
       ELSE Ok(TYPESCRIPT_PACKAGE_NAME \in package_json.val.dev_dependencies
               \/ TYPESCRIPT_PACKAGE_NAME \in package_json.val.dependencies)

\* as unwrap_or_default, with the wrong default
unwrap_or_true(r) == IF r.ok THEN r.val ELSE TRUE

\* Result<bool>::unwrap_or_default
unwrap_or_default(r) == IF r.ok THEN r.val ELSE FALSE

\* the condition of the early return of install_typescript_if_needed
found_local_typescript(worktree) ==
    unwrap_or_default(typescript_exists_for_worktree(worktree))

\* as get_ts_plugin_root_path, looking at dependencies only
get_ts_plugin_root_path_deps_only(worktree) ==
    LET package_json == read_package_json(worktree)
    IN IF ~package_json.ok THEN package_json
       ELSE IF TS_PLUGIN_PACKAGE_NAME \in package_json.val.dependencies
            THEN Ok(None) ELSE Ok(Some(CurrentDir))

get_ts_plugin_root_path(worktree) ==
    LET package_json == read_package_json(worktree)
    IN IF ~package_json.ok THEN package_json
       ELSE LET has_local_plugin ==
                    TS_PLUGIN_PACKAGE_NAME \in package_json.val.dev_dependencies
                    \/ TS_PLUGIN_PACKAGE_NAME \in package_json.val.dependencies
            IN IF has_local_plugin THEN Ok(None) ELSE Ok(Some(CurrentDir))

\* Option<String>::unwrap_or_else(|| worktree.root_path())
unwrap_or_root_path(opt, worktree) == IF opt = None THEN worktree.root_path ELSE opt[1]

----------------------------------------------------------------------------
(* The decisions of server_script_path *)

\* as takes_fast_path, with the probe's result negated
takes_fast_path_negated(found, server_exists) == found /\ ~server_exists

\* as takes_fast_path, without the probe
takes_fast_path_found_only(found, server_exists) == found

\* line 45: the early return that skips the language server's own check
takes_fast_path(found, server_exists) == found /\ server_exists

\* as needs_server_install, without the version comparison
needs_server_install_absent_only(server_exists, installed_version) == ~server_exists

\* as queries_server_version, without the short circuit of ||
queries_server_version_always(server_exists) == TRUE

\* lines 58-59, evaluated left to right: the query is issued only when the
\* binary exists
queries_server_version(server_exists) == server_exists
needs_server_install(server_exists, installed_version) ==
    ~server_exists \/ installed_version # Some(PinnedVersion)

\* as install_outcome, swallowing every install error
install_outcome_swallow_all(install_ok, exists_after) ==
    IF install_ok
    THEN IF ~exists_after THEN "missing_path" ELSE "proceed"
    ELSE "proceed"

\* as install_outcome, propagating every install error
install_outcome_strict(install_ok, exists_after) ==
    IF install_ok
    THEN IF ~exists_after THEN "missing_path" ELSE "proceed"
    ELSE "install_error"

\* as install_outcome, without the probe after an install that reported Ok
install_outcome_trusting_ok(install_ok, exists_after) ==
    IF install_ok
    THEN "proceed"
    ELSE IF ~exists_after THEN "install_error" ELSE "proceed"

\* lines 66-79: what the install's result and the probe after it lead to
install_outcome(install_ok, exists_after) ==
    IF install_ok
    THEN IF ~exists_after THEN "missing_path" ELSE "proceed"
    ELSE IF ~exists_after THEN "install_error" ELSE "proceed"

\* as after_typescript, without the ? on the call
after_typescript_ignoring_error(path, sdk_ok) ==
    IF path = "fast" THEN "ts_plugin" ELSE "found"

\* lines 46-48 and 82-84: what follows install_typescript_if_needed(worktree)?
after_typescript(path, sdk_ok) ==
    IF ~sdk_ok THEN "return_err"
    ELSE IF path = "fast" THEN "ts_plugin"
    ELSE "found"

\* lines 116 and 135: installed.as_ref() != Some(&latest)
needs_install(installed_version, latest_version) ==
    installed_version # Some(latest_version)

\* lines 123-126
absolute_tsdk_path ==
    to_string_lossy(join(sanitize_windows_path(os, current_dir), TYPESCRIPT_TSDK_PATH))

----------------------------------------------------------------------------
(* The log of what a call asked of the host *)

Event(kind, pkg, arg) == [kind |-> kind, pkg |-> pkg, arg |-> arg]
Status(s) == Event("status", PACKAGE_NAME, s)
QueryInstalled(pkg) == Event("installed_version", pkg, "")
QueryLatest(pkg) == Event("latest_version", pkg, "")
Install(pkg, v) == Event("install", pkg, v)
ReadManifest == Event("read_text_file", "package.json", "")

NoWorktree == [root_path |-> "", package_json |->
                 [readable |-> FALSE, well_formed |-> FALSE,
                  dependencies |-> None, devDependencies |-> None]]

NoCompletion == [kind |-> None, label |-> <<>>, detail |-> None]

NoCall ==
    [op |-> "none", worktree |-> NoWorktree, target |-> "",
     completion |-> NoCompletion, code_label |-> None, settings |-> Err("none"),
     pre_found |-> FALSE, pre_tsdk |-> "", server_exists |-> FALSE, path |-> "none",
     events |-> <<>>, sdk |-> "not_run", ts_plugin |-> "not_run",
     server_query |-> "not_run", server_install |-> "not_run", exists_after |-> FALSE,
     server_installed_version |-> None,
     installed_typescript_version |-> None, latest_typescript_version |-> "",
     installed_plugin_version |-> None, latest_plugin_version |-> "",
     result |-> NoResult]

----------------------------------------------------------------------------
(* VueExtension::new and the world it starts in *)

InstalledStates ==
    {f \in [Packages -> {None} \cup {Some(v) : v \in ServerVersions \cup Versions}] :
        \A p \in Packages : f[p] = None \/ f[p][1] \in VersionsOf(p)}

Init ==
    /\ did_find_server = FALSE
    /\ typescript_tsdk_path = TYPESCRIPT_TSDK_PATH
    /\ server_on_disk \in BOOLEAN
    /\ installed \in InstalledStates
    /\ registry_reachable \in BOOLEAN
    /\ os \in Platforms
    /\ pc = "idle"
    /\ call = NoCall

\* npm_package_latest_version asks the registry: it fails when the registry
\* cannot be reached, and may fail for other reasons when it can
LatestVersionAnswers == IF registry_reachable THEN BOOLEAN ELSE {FALSE}

\* VueExtension::server_exists
server_exists == server_on_disk

Idle == pc \in {"idle", "done"}

Log(c, evs) == [c EXCEPT !.events = c.events \o evs]

----------------------------------------------------------------------------
(* server_script_path, lines 39-85 *)

\* lines 44-54: the probe, the fast-path test, the first status report
BeginServerScriptPath ==
    /\ Idle
    /\ \E worktree \in Worktrees :
        LET c == [NoCall EXCEPT !.op = "server_script_path",
                                !.worktree = worktree,
                                !.pre_found = did_find_server,
                                !.pre_tsdk = typescript_tsdk_path,
                                !.server_exists = server_exists]
        IN IF takes_fast_path(did_find_server, server_exists)
           THEN /\ call' = [c EXCEPT !.path = "fast"]
                /\ pc' = "typescript_exists"
           ELSE /\ call' = [c EXCEPT !.path = "slow",
                                     !.events = <<Status("CheckingForUpdate")>>]
                /\ pc' = "server_version"
    /\ UNCHANGED <<did_find_server, typescript_tsdk_path, server_on_disk, installed, registry_reachable, os>>

\* lines 58-59: !server_exists || npm_package_installed_version(PACKAGE_NAME)? != Some(version)
ServerVersion ==
    /\ pc = "server_version"
    /\ IF ~queries_server_version(call.server_exists)
       THEN /\ pc' = IF needs_server_install(call.server_exists, None)
                     THEN "install_server" ELSE "typescript_exists"
            /\ call' = call
       ELSE \E query_ok \in BOOLEAN :
            LET c == Log(call, <<QueryInstalled(PACKAGE_NAME)>>)
            IN IF ~query_ok
               THEN /\ pc' = "done"
                    /\ call' = [c EXCEPT !.server_query = "err",
                                         !.result = Err("registry")]
               ELSE /\ pc' = IF needs_server_install(call.server_exists, installed[PACKAGE_NAME])
                             THEN "install_server" ELSE "typescript_exists"
                    /\ call' = [c EXCEPT !.server_query = "ok",
                                         !.server_installed_version = installed[PACKAGE_NAME]]
    /\ UNCHANGED <<did_find_server, typescript_tsdk_path, server_on_disk, installed, registry_reachable, os>>

\* lines 61-79: report Downloading, install the pinned version, probe again
InstallServer ==
    /\ pc = "install_server"
    /\ \E install_ok \in BOOLEAN, exists_after \in BOOLEAN :
        LET c == [Log(call, <<Status("Downloading"), Install(PACKAGE_NAME, PinnedVersion)>>)
                     EXCEPT !.server_install = IF install_ok THEN "ok" ELSE "err",
                            !.exists_after = exists_after]
            outcome == install_outcome(install_ok, exists_after)
        IN /\ installed' = IF install_ok
                           THEN [installed EXCEPT ![PACKAGE_NAME] = Some(PinnedVersion)]
                           ELSE installed
           /\ server_on_disk' = exists_after
           /\ IF outcome = "proceed"
              THEN /\ pc' = "typescript_exists"
                   /\ call' = c
              ELSE /\ pc' = "done"
                   /\ call' = [c EXCEPT !.result = Err(outcome)]
    /\ UNCHANGED <<did_find_server, typescript_tsdk_path, registry_reachable, os>>

----------------------------------------------------------------------------
(* install_typescript_if_needed, lines 103-129, and what its caller does next *)

\* the return of install_typescript_if_needed to server_script_path
\* (line 46 then 47, or line 82 then 83-84)
FinishTypescript(c, sdk_ok, err) ==
    LET next == after_typescript(c.path, sdk_ok)
        d == [c EXCEPT !.sdk = IF sdk_ok THEN "ok" ELSE "err"]
    IN /\ did_find_server' = IF next = "found" THEN TRUE ELSE did_find_server
       /\ pc' = IF next = "ts_plugin" THEN "plugin_installed_version" ELSE "done"
       /\ call' = CASE next = "ts_plugin" -> d
                    [] next = "found" -> [d EXCEPT !.result = Ok(SERVER_PATH)]
                    [] OTHER -> [d EXCEPT !.result = Err(err)]

\* lines 104-110
TypescriptExists ==
    /\ pc = "typescript_exists"
    /\ LET c == Log(call, <<ReadManifest>>)
       IN IF found_local_typescript(call.worktree)
          THEN FinishTypescript(c, TRUE, "")
          ELSE /\ pc' = "ts_installed_version"
               /\ call' = [c EXCEPT !.sdk = "running"]
               /\ UNCHANGED did_find_server
    /\ UNCHANGED <<typescript_tsdk_path, server_on_disk, installed, registry_reachable, os>>

\* lines 112-113
TsInstalledVersion ==
    /\ pc = "ts_installed_version"
    /\ \E query_ok \in BOOLEAN :
        LET c == Log(call, <<QueryInstalled(TYPESCRIPT_PACKAGE_NAME)>>)
        IN IF ~query_ok
           THEN FinishTypescript(c, FALSE, "registry")
           ELSE /\ pc' = "ts_latest_version"
                /\ call' = [c EXCEPT !.installed_typescript_version =
                                        installed[TYPESCRIPT_PACKAGE_NAME]]
                /\ UNCHANGED did_find_server
    /\ UNCHANGED <<typescript_tsdk_path, server_on_disk, installed, registry_reachable, os>>

\* lines 114-116 and, when nothing is to install, 119-128
TsLatestVersion ==
    /\ pc = "ts_latest_version"
    /\ \E query_ok \in LatestVersionAnswers, latest_version \in Versions :
        LET c == Log(call, <<QueryLatest(TYPESCRIPT_PACKAGE_NAME)>>)
        IN IF ~query_ok
           THEN /\ FinishTypescript(c, FALSE, "registry")
                /\ UNCHANGED typescript_tsdk_path
           ELSE IF needs_install(call.installed_typescript_version, latest_version)
           THEN /\ pc' = "ts_install"
                /\ call' = [c EXCEPT !.latest_typescript_version = latest_version]
                /\ UNCHANGED <<did_find_server, typescript_tsdk_path>>
           ELSE /\ typescript_tsdk_path' = absolute_tsdk_path
                /\ FinishTypescript([c EXCEPT !.latest_typescript_version = latest_version], TRUE, "")
    /\ UNCHANGED <<server_on_disk, installed, registry_reachable, os>>

\* lines 117-118 and 123-128
TsInstall ==
    /\ pc = "ts_install"
    /\ \E install_ok \in BOOLEAN :
        LET c == Log(call, <<Install(TYPESCRIPT_PACKAGE_NAME, call.latest_typescript_version)>>)
        IN IF install_ok
           THEN /\ installed' = [installed EXCEPT
                                    ![TYPESCRIPT_PACKAGE_NAME] = Some(call.latest_typescript_version)]
                /\ typescript_tsdk_path' = absolute_tsdk_path
                /\ FinishTypescript(c, TRUE, "")
           ELSE /\ FinishTypescript(c, FALSE, "install")
                /\ UNCHANGED <<installed, typescript_tsdk_path>>
    /\ UNCHANGED <<server_on_disk, registry_reachable, os>>

----------------------------------------------------------------------------
(* install_ts_plugin_if_needed, lines 131-142, called at line 47 only *)

\* as FinishTsPlugin, trying the failed step again instead of returning
FinishTsPluginRetrying(c, plugin_ok, err) ==
    IF plugin_ok
    THEN /\ pc' = "done"
         /\ call' = [c EXCEPT !.ts_plugin = "ok", !.result = Ok(SERVER_PATH)]
    ELSE /\ pc' = pc
         /\ call' = c

\* the return of install_ts_plugin_if_needed, then line 48
FinishTsPlugin(c, plugin_ok, err) ==
    /\ pc' = "done"
    /\ call' = [c EXCEPT !.ts_plugin = IF plugin_ok THEN "ok" ELSE "err",
                         !.result = IF plugin_ok THEN Ok(SERVER_PATH) ELSE Err(err)]

\* line 132
PluginInstalledVersion ==
    /\ pc = "plugin_installed_version"
    /\ \E query_ok \in BOOLEAN :
        LET c == Log(call, <<QueryInstalled(TS_PLUGIN_PACKAGE_NAME)>>)
        IN IF ~query_ok
           THEN FinishTsPlugin(c, FALSE, "registry")
           ELSE /\ pc' = "plugin_latest_version"
                /\ call' = [c EXCEPT !.ts_plugin = "running",
                                     !.installed_plugin_version =
                                        installed[TS_PLUGIN_PACKAGE_NAME]]
    /\ UNCHANGED <<did_find_server, typescript_tsdk_path, server_on_disk, installed, registry_reachable, os>>

\* lines 133-135 and 138-141
PluginLatestVersion ==
    /\ pc = "plugin_latest_version"
    /\ \E query_ok \in LatestVersionAnswers, latest_version \in Versions :
        LET c == Log(call, <<QueryLatest(TS_PLUGIN_PACKAGE_NAME)>>)
        IN IF ~query_ok
           THEN FinishTsPlugin(c, FALSE, "registry")
           ELSE IF needs_install(call.installed_plugin_version, latest_version)
           THEN /\ pc' = "plugin_install"
                /\ call' = [c EXCEPT !.latest_plugin_version = latest_version]
           ELSE FinishTsPlugin([c EXCEPT !.latest_plugin_version = latest_version], TRUE, "")
    /\ UNCHANGED <<did_find_server, typescript_tsdk_path, server_on_disk, installed, registry_reachable, os>>

\* lines 136-137 and 141
PluginInstall ==
    /\ pc = "plugin_install"
    /\ \E install_ok \in BOOLEAN :
        LET c == Log(call, <<Install(TS_PLUGIN_PACKAGE_NAME, call.latest_plugin_version)>>)
        IN IF install_ok
           THEN /\ installed' = [installed EXCEPT
                                    ![TS_PLUGIN_PACKAGE_NAME] = Some(call.latest_plugin_version)]
                /\ FinishTsPlugin(c, TRUE, "")
           ELSE /\ FinishTsPlugin(c, FALSE, "install")
                /\ UNCHANGED installed
    /\ UNCHANGED <<did_find_server, typescript_tsdk_path, server_on_disk, registry_reachable, os>>

----------------------------------------------------------------------------
(* Configuration Emitter, lines 217-256 *)

TargetIds == {"typescript-language-server", "vtsls", "eslint"}

Languages == <<"typescript", "vue.js">>

\* as additional_initialization_options, customizing vtsls as well
additional_initialization_options_both_targets(target, worktree) ==
    IF target \in {"typescript-language-server", "vtsls"}
    THEN LET root == get_ts_plugin_root_path(worktree)
         IN [events |-> <<ReadManifest>>,
             result |->
                IF ~root.ok THEN root
                ELSE Ok(Some([plugins |-> <<
                        [name |-> "@vue/typescript-plugin",
                         location |-> unwrap_or_root_path(root.val, worktree),
                         languages |-> Languages]>>]))]
    ELSE [events |-> <<>>, result |-> Ok(None)]

\* lines 223-232: [result, events] of the match on the target id
additional_initialization_options(target, worktree) ==
    IF target = "typescript-language-server"
    THEN LET root == get_ts_plugin_root_path(worktree)
         IN [events |-> <<ReadManifest>>,
             result |->
                IF ~root.ok THEN root
                ELSE Ok(Some([plugins |-> <<
                        [name |-> "@vue/typescript-plugin",
                         location |-> unwrap_or_root_path(root.val, worktree),
                         languages |-> Languages]>>]))]
    ELSE [events |-> <<>>, result |-> Ok(None)]

\* lines 241-255
additional_workspace_configuration(target, worktree) ==
    IF target = "vtsls"
    THEN LET root == get_ts_plugin_root_path(worktree)
         IN [events |-> <<ReadManifest>>,
             result |->
                IF ~root.ok THEN root
                ELSE Ok(Some([vtsls |-> [tsserver |-> [globalPlugins |-> <<
                        [name |-> "@vue/typescript-plugin",
                         location |-> unwrap_or_root_path(root.val, worktree),
                         enableForWorkspaceTypeScriptVersions |-> TRUE,
                         languages |-> Languages]>>]]]))]
    ELSE [events |-> <<>>, result |-> Ok(None)]

EmitterCall(op, target, worktree, out) ==
    [NoCall EXCEPT !.op = op, !.target = target, !.worktree = worktree,
                   !.pre_found = did_find_server, !.pre_tsdk = typescript_tsdk_path,
                   !.events = out.events, !.result = out.result]

LanguageServerAdditionalInitializationOptions ==
    /\ Idle
    /\ \E target \in TargetIds, worktree \in Worktrees :
        call' = EmitterCall("language_server_additional_initialization_options",
                            target, worktree,
                            additional_initialization_options(target, worktree))
    /\ pc' = "done"
    /\ UNCHANGED <<did_find_server, typescript_tsdk_path, server_on_disk, installed, registry_reachable, os>>

LanguageServerAdditionalWorkspaceConfiguration ==
    /\ Idle
    /\ \E target \in TargetIds, worktree \in Worktrees :
        call' = EmitterCall("language_server_additional_workspace_configuration",
                            target, worktree,
                            additional_workspace_configuration(target, worktree))
    /\ pc' = "done"
    /\ UNCHANGED <<did_find_server, typescript_tsdk_path, server_on_disk, installed, registry_reachable, os>>

----------------------------------------------------------------------------
(* language_server_initialization_options, lines 195-215 *)

\* an override a user may have put under lsp.vue.initialization_options
CustomInitializationOptions == [vue |-> [hybridMode |-> TRUE]]

\* what LspSettings::for_worktree("vue", worktree) can answer
LspSettingsResults ==
    {Err("settings"),
     Ok([initialization_options |-> None]),
     Ok([initialization_options |-> Some(CustomInitializationOptions)])}

\* as initialization_options, always naming the bundled relative SDK path
initialization_options_bundled_tsdk(settings, tsdk_path) ==
    LET override == IF settings.ok THEN settings.val.initialization_options ELSE None
    IN IF override # None THEN override[1]
       ELSE [typescript |-> [tsdk |-> TYPESCRIPT_TSDK_PATH],
             vue |-> [hybridMode |-> FALSE]]

\* lines 200-212: .ok().and_then(|settings| settings.initialization_options)
\* .unwrap_or_else(|| json!({...}))
initialization_options(settings, tsdk_path) ==
    LET override == IF settings.ok THEN settings.val.initialization_options ELSE None
    IN IF override # None THEN override[1]
       ELSE [typescript |-> [tsdk |-> tsdk_path],
             vue |-> [hybridMode |-> FALSE]]

LanguageServerInitializationOptions ==
    /\ Idle
    /\ \E settings \in LspSettingsResults :
        call' = [NoCall EXCEPT
                    !.op = "language_server_initialization_options",
                    !.settings = settings,
                    !.pre_found = did_find_server,
                    !.pre_tsdk = typescript_tsdk_path,
                    !.result = Ok(Some(initialization_options(settings, typescript_tsdk_path)))]
    /\ pc' = "done"
    /\ UNCHANGED <<did_find_server, typescript_tsdk_path, server_on_disk, installed, registry_reachable, os>>

----------------------------------------------------------------------------
(* Label Mapper: label_for_completion, lines 258-291 *)

\* zed::lsp::CompletionKind
CompletionKinds ==
    {"Class", "Color", "Constant", "Constructor", "Enum", "EnumMember", "Event",
     "Field", "File", "Folder", "Function", "Interface", "Keyword", "Method",
     "Module", "Operator", "Property", "Reference", "Snippet", "Struct", "Text",
     "TypeParameter", "Unit", "Value", "Variable", "Other"}

\* A String is the sequence of its characters; UTF-8 encodes "a" in one byte
\* and "\u00e9" (written "e'") in two.
Chars == {"a", "e'"}
Utf8Width(ch) == IF ch = "a" THEN 1 ELSE 2
Strings(n) == UNION {[1..k -> Chars] : k \in 0..n}

\* String::len: the length in bytes
RECURSIVE str_len(_)
str_len(str) == IF str = <<>> THEN 0 ELSE Utf8Width(Head(str)) + str_len(Tail(str))

Details == {None, Some(<<"a", "a">>)}
Completions ==
    [kind : {None} \cup {Some(k) : k \in CompletionKinds},
     label : Strings(MaxLabelLen),
     detail : Details]

\* as highlight_name, naming variables "variable"
highlight_name_variable(kind) ==
    CASE kind \in {"Class", "Interface"} -> Some("type")
      [] kind = "Constructor" -> Some("type")
      [] kind = "Constant" -> Some("constant")
      [] kind \in {"Function", "Method"} -> Some("function")
      [] kind \in {"Property", "Field"} -> Some("tag")
      [] kind = "Variable" -> Some("variable")
      [] kind = "Keyword" -> Some("keyword")
      [] kind = "Value" -> Some("tag")
      [] OTHER -> None

\* lines 263-273: the match on completion.kind?; None is `return None`
highlight_name(kind) ==
    CASE kind \in {"Class", "Interface"} -> Some("type")
      [] kind = "Constructor" -> Some("type")
      [] kind = "Constant" -> Some("constant")
      [] kind \in {"Function", "Method"} -> Some("function")
      [] kind \in {"Property", "Field"} -> Some("tag")
      [] kind = "Variable" -> Some("type")
      [] kind = "Keyword" -> Some("keyword")
      [] kind = "Value" -> Some("tag")
      [] OTHER -> None

\* CodeLabelSpan::literal
literal(text, highlight) == [text |-> text, highlight_name |-> highlight]

\* lines 258-291: Option<zed::CodeLabel>
label_for_completion(completion) ==
    IF completion.kind = None THEN None
    ELSE LET highlight == highlight_name(completion.kind[1])
             len == str_len(completion.label)
             name_span == literal(completion.label, highlight)
         IN IF highlight = None THEN None
            ELSE Some([code |-> <<>>,
                       spans |-> IF completion.detail # None
                                 THEN <<name_span,
                                        literal(<<" ">>, None),
                                        literal(completion.detail[1], None)>>
                                 ELSE <<name_span>>,
                       filter_range |-> [start |-> 0, end |-> len]])

LabelCall(completions) ==
    /\ Idle
    /\ \E completion \in completions :
        call' = [NoCall EXCEPT !.op = "label_for_completion",
                               !.completion = completion,
                               !.pre_found = did_find_server,
                               !.pre_tsdk = typescript_tsdk_path,
                               !.code_label = label_for_completion(completion)]
    /\ pc' = "done"
    /\ UNCHANGED <<did_find_server, typescript_tsdk_path, server_on_disk, installed, registry_reachable, os>>

\* the completions the host asks about between the calls of a session
SessionCompletions ==
    {c \in Completions :
        /\ c.kind \in {None, Some("Keyword"), Some("Text")}
        /\ c.label = <<"a">>
        /\ c.detail = None}

\* label_for_completion, as one entry point among the others
LabelForSessionCompletion == LabelCall(SessionCompletions)

\* label_for_completion, for every completion
LabelForCompletion == LabelCall(Completions)

----------------------------------------------------------------------------
(* The world between two calls of the host.  The registry needs no state  *)
(* of versions: the extension reads it only through latest_version         *)
(* queries, each of which may answer with any version.                     *)

\* node_modules of the work directory is removed from outside
WorkDirCleared ==
    /\ Idle
    /\ server_on_disk \/ \E p \in Packages : installed[p] # None
    /\ server_on_disk' = FALSE
    /\ installed' = [p \in Packages |-> None]
    /\ pc' = "idle"
    /\ call' = NoCall
    /\ UNCHANGED <<did_find_server, typescript_tsdk_path, registry_reachable, os>>

\* the network to the registry goes down or comes back
RegistryReachabilityChanges ==
    /\ Idle
    /\ registry_reachable' = ~registry_reachable
    /\ pc' = "idle"
    /\ call' = NoCall
    /\ UNCHANGED <<did_find_server, typescript_tsdk_path, server_on_disk, installed, os>>

----------------------------------------------------------------------------

Next ==
    \/ BeginServerScriptPath
    \/ ServerVersion
    \/ InstallServer
    \/ TypescriptExists
    \/ TsInstalledVersion
    \/ TsLatestVersion
    \/ TsInstall
    \/ PluginInstalledVersion
    \/ PluginLatestVersion
    \/ PluginInstall
    \/ LanguageServerAdditionalInitializationOptions
    \/ LanguageServerAdditionalWorkspaceConfiguration
    \/ LanguageServerInitializationOptions
    \/ LabelForSessionCompletion
    \/ WorkDirCleared
    \/ RegistryReachabilityChanges

Spec == Init /\ [][Next]_vars

\* label_for_completion alone, applied to every completion: it reads nothing
\* of the session or of the world, which are held at one value
LabelInit ==
    /\ Init
    /\ ~server_on_disk
    /\ installed = [p \in Packages |-> None]
    /\ registry_reachable
    /\ os = "Linux"

LabelNext == LabelForCompletion

LabelSpec == LabelInit /\ [][LabelNext]_vars

----------------------------------------------------------------------------
(* Vocabulary of the properties *)

Resolution == call.op = "server_script_path"
Returned == Resolution /\ pc = "done"
Succeeded == Returned /\ call.result.ok

EventsOf(pkg) == {i \in 1..Len(call.events) : call.events[i].pkg = pkg}
Issued(ev) == \E i \in 1..Len(call.events) : call.events[i] = ev
RegistryKinds == {"installed_version", "latest_version", "install"}
RegistryTraffic(pkg) ==
    {i \in EventsOf(pkg) : call.events[i].kind \in RegistryKinds}
Installs(pkg) == {i \in EventsOf(pkg) : call.events[i].kind = "install"}

\* what the text of the manifest declares, read off the text itself
Declares(worktree, name) ==
    /\ worktree.package_json.readable
    /\ worktree.package_json.well_formed
    /\ \/ /\ worktree.package_json.dependencies # None
          /\ name \in worktree.package_json.dependencies[1]
       \/ /\ worktree.package_json.devDependencies # None
          /\ name \in worktree.package_json.devDependencies[1]
WellFormed(worktree) ==
    worktree.package_json.readable /\ worktree.package_json.well_formed
Malformed(worktree) ==
    worktree.package_json.readable /\ ~worktree.package_json.well_formed

\* the call started with serverLocated set and the binary on disk
SecondCall == Resolution /\ call.pre_found /\ call.server_exists

----------------------------------------------------------------------------
(* C1 *)

\* C1, as stated: a resolution call made after an earlier one succeeded, with
\* the binary still on disk, issues no registry query and no install for any
\* of the three packages, and returns the same path.
C1_FastPathNoRegistryTraffic ==
    SecondCall =>
        /\ \A pkg \in Packages : RegistryTraffic(pkg) = {}
        /\ pc = "done" => call.result = Ok(SERVER_PATH)

\* C1, amended: such a call issues no registry query, no install and no
\* status report for @vue/language-server, and when it succeeds it returns
\* the same path; but it has then queried the registry for both versions of
\* the companion plugin, and for typescript unless the manifest declares it.
C1_FastPathSkipsServerOnly ==
    SecondCall =>
        /\ call.path = "fast"
        /\ EventsOf(PACKAGE_NAME) = {}
        /\ call.server_query = "not_run" /\ call.server_install = "not_run"
        /\ Succeeded =>
            /\ call.result.val = SERVER_PATH
            /\ Issued(QueryInstalled(TS_PLUGIN_PACKAGE_NAME))
            /\ Issued(QueryLatest(TS_PLUGIN_PACKAGE_NAME))
            /\ Declares(call.worktree, TYPESCRIPT_PACKAGE_NAME)
                 \/ Issued(QueryLatest(TYPESCRIPT_PACKAGE_NAME))

\* a second call that succeeded after installing the plugin
C1_Witness ==
    /\ SecondCall /\ Succeeded
    /\ Installs(TS_PLUGIN_PACKAGE_NAME) # {}
    /\ Installs(TYPESCRIPT_PACKAGE_NAME) # {}

----------------------------------------------------------------------------
(* C2 *)

\* C2, as stated: a resolution call made while the plugin's registry query
\* fails (the registry cannot be reached) returns an error, whether it is the
\* first call of the session or a later one, binary present or not.
C2_PluginRegistryFailureIsFatal ==
    (Returned /\ ~registry_reachable) => ~call.result.ok

----------------------------------------------------------------------------
(* C3 *)

\* C3: on the slow path with the binary absent at the start, an install of
\* the language server that fails and leaves the binary absent ends the call
\* with that error; neither the SDK step nor the plugin step runs, nothing
\* is asked about typescript or the plugin, and did_find_server keeps its
\* value (false stays false).
C3_FailedInstallPropagates ==
    (/\ Resolution /\ call.path = "slow" /\ ~call.server_exists
     /\ call.server_install = "err" /\ ~call.exists_after)
    =>
        /\ pc = "done"
        /\ call.result = Err("install_error")
        /\ call.sdk = "not_run" /\ call.ts_plugin = "not_run"
        /\ EventsOf(TYPESCRIPT_PACKAGE_NAME) = {}
        /\ EventsOf(TS_PLUGIN_PACKAGE_NAME) = {}
        /\ ~Issued(ReadManifest)
        /\ did_find_server = call.pre_found
        /\ ~call.pre_found => ~did_find_server

C3_Witness ==
    /\ Returned /\ call.path = "slow" /\ ~call.server_exists
    /\ call.server_install = "err" /\ ~call.exists_after
    /\ ~server_on_disk /\ ~did_find_server
    /\ call.result = Err("install_error")

----------------------------------------------------------------------------
(* C4 *)

\* C4: on the slow path, when the install of the language server fails but
\* the binary is on disk afterwards, the install error is not returned: the
\* call goes on to the SDK step, and if that step succeeds the call returns
\* the server path and sets did_find_server; a call that starts with
\* did_find_server set and the binary on disk takes the fast path.
C4_InstallErrorSwallowed ==
    /\ (/\ Resolution /\ call.path = "slow"
        /\ call.server_install = "err" /\ call.exists_after)
       =>
        /\ call.result.err # "install_error"
        /\ call.sdk # "not_run" \/ pc = "typescript_exists"
        /\ (pc = "done" /\ call.sdk = "ok") =>
                call.result = Ok(SERVER_PATH) /\ did_find_server
        /\ Succeeded => call.sdk = "ok"
    /\ SecondCall => call.path = "fast"

\* installed 3.0.0, install of 2.2.8 failed, binary there: the call succeeded
C4_Witness ==
    /\ Succeeded /\ call.path = "slow" /\ ~call.pre_found
    /\ call.server_exists /\ call.server_query = "ok"
    /\ call.server_installed_version = Some("3.0.0")
    /\ call.server_install = "err" /\ call.exists_after
    /\ did_find_server

----------------------------------------------------------------------------
(* C5 *)

\* C5: when the manifest is well formed and lists typescript under
\* dependencies or devDependencies, the SDK step asks the registry nothing
\* about typescript, installs nothing, succeeds, and leaves
\* typescript_tsdk_path as it was.
C5_DeclaredTypescriptSkipsSdk ==
    (Resolution /\ Declares(call.worktree, TYPESCRIPT_PACKAGE_NAME)) =>
        /\ EventsOf(TYPESCRIPT_PACKAGE_NAME) = {}
        /\ call.sdk \in {"not_run", "ok"}
        /\ pc \notin {"ts_installed_version", "ts_latest_version", "ts_install"}
        /\ typescript_tsdk_path = call.pre_tsdk

\* typescript under dependencies only, SDK step done, the default path kept
C5_Witness ==
    /\ Returned /\ call.sdk = "ok"
    /\ call.worktree.package_json.dependencies = Some({TYPESCRIPT_PACKAGE_NAME})
    /\ call.worktree.package_json.devDependencies = None
    /\ typescript_tsdk_path = TYPESCRIPT_TSDK_PATH

----------------------------------------------------------------------------
(* C6 *)

InitOptionsCall == call.op = "language_server_additional_initialization_options"
WorkspaceConfigCall == call.op = "language_server_additional_workspace_configuration"

\* an emitter call for the target its entry point customizes
RecognizedEmitterCall ==
    \/ InitOptionsCall /\ call.target = "typescript-language-server"
    \/ WorkspaceConfigCall /\ call.target = "vtsls"

\* the plugin entry of the payload a recognized emitter call returned
PluginEntry ==
    IF InitOptionsCall
    THEN call.result.val[1].plugins[1]
    ELSE call.result.val[1].vtsls.tsserver.globalPlugins[1]

\* Option: the entry's location field, None when the entry has none
PluginLocation ==
    IF "location" \in DOMAIN PluginEntry THEN Some(PluginEntry.location) ELSE None

\* C6, as stated: the payload's location is the absolute workspace root when
\* the manifest does not declare @vue/typescript-plugin, and is omitted when
\* it does.  (The workspace root is read here as either of the two absolute
\* directories the code knows: the worktree's root path or the process's
\* current directory.)
C6_LocationOmittedWhenDeclared ==
    (RecognizedEmitterCall /\ call.result.ok) =>
        IF Declares(call.worktree, TS_PLUGIN_PACKAGE_NAME)
        THEN PluginLocation = None
        ELSE PluginLocation \in {Some(call.worktree.root_path), Some(CurrentDir)}

\* C6, amended: location is always present in the payload.  When the
\* manifest does not declare the plugin it is the current directory of the
\* extension process (where this tool installs the plugin), not the worktree
\* root; when the manifest declares it, it is the worktree's root path.
C6_LocationAlwaysSet ==
    (RecognizedEmitterCall /\ WellFormed(call.worktree)) =>
        /\ call.result.ok
        /\ PluginLocation =
              IF Declares(call.worktree, TS_PLUGIN_PACKAGE_NAME)
              THEN Some(call.worktree.root_path)
              ELSE Some(CurrentDir)
        /\ CurrentDir # call.worktree.root_path

\* vtsls asked for a project that lists the plugin under devDependencies
C6_Witness ==
    /\ WorkspaceConfigCall /\ call.target = "vtsls" /\ pc = "done"
    /\ call.worktree.package_json.devDependencies = Some({TS_PLUGIN_PACKAGE_NAME})
    /\ call.worktree.package_json.dependencies = None
    /\ call.result.ok
    /\ PluginLocation = Some("/home/u/app")

----------------------------------------------------------------------------
(* C7 *)

\* C7, as stated: in a resolution call that found the binary present (so
\* that it reached the SDK step), a failure of the SDK step or of the plugin
\* step does not keep the other step from being attempted in that call.
C7_StepsIndependent ==
    Returned =>
        /\ call.sdk = "err" => call.ts_plugin # "not_run"
        /\ call.ts_plugin = "err" => call.sdk # "not_run"

\* C7, amended: the two steps run in sequence, the SDK step first.  A
\* failure of the SDK step ends the call with that error and the plugin step
\* is not attempted; the plugin step is attempted, and so can fail, only
\* after the SDK step of the same call succeeded.
C7_SdkFailureEndsCall ==
    Resolution =>
        /\ call.sdk = "err" =>
              /\ pc = "done" /\ ~call.result.ok
              /\ call.ts_plugin = "not_run"
              /\ EventsOf(TS_PLUGIN_PACKAGE_NAME) = {}
        /\ call.ts_plugin # "not_run" => call.sdk = "ok"
        /\ EventsOf(TS_PLUGIN_PACKAGE_NAME) # {} => call.sdk = "ok"

\* a fast-path call whose typescript install failed
C7_Witness ==
    /\ Returned /\ call.path = "fast" /\ server_on_disk
    /\ call.sdk = "err" /\ call.result = Err("install")
    /\ call.ts_plugin = "not_run"

----------------------------------------------------------------------------
(* C8 *)

\* C8, as stated: when a resolution call returns success, it has brought the
\* companion plugin to its latest version: the plugin step ran, and the
\* installed version of @vue/typescript-plugin is the latest version the
\* registry reported to this call.
C8_SuccessMeansPluginLatest ==
    Succeeded =>
        /\ call.ts_plugin = "ok"
        /\ installed[TS_PLUGIN_PACKAGE_NAME] = Some(call.latest_plugin_version)

----------------------------------------------------------------------------
(* C9 *)

ParseError == Err("failed to parse package.json")

\* C9, as stated: with a manifest that does not parse, a resolution call
\* that reaches the SDK step and a configuration-emitter call for a
\* recognized target both return the parse error, and no install of
\* typescript is attempted.
C9_MalformedManifestIsFatal ==
    Malformed(call.worktree) =>
        /\ (Returned /\ call.sdk # "not_run") => call.result = ParseError
        /\ Resolution => Installs(TYPESCRIPT_PACKAGE_NAME) = {}
        /\ RecognizedEmitterCall => call.result = ParseError

\* C9, amended: a manifest that does not parse is fatal for the
\* configuration emitter only (a call for a recognized target returns the
\* parse error).  In a resolution call the SDK step discards the parse
\* error and goes on as if typescript were not declared: it never returns
\* the parse error, it queries the installed version of typescript, and on a
\* version mismatch it installs typescript.
C9_MalformedManifestFatalForEmitterOnly ==
    Malformed(call.worktree) =>
        /\ RecognizedEmitterCall => call.result = ParseError
        /\ Resolution =>
            /\ call.result # ParseError
            /\ (Returned /\ call.sdk # "not_run") =>
                    Issued(QueryInstalled(TYPESCRIPT_PACKAGE_NAME))
            /\ (Returned /\ call.sdk = "ok") =>
                    /\ typescript_tsdk_path = absolute_tsdk_path
                    /\ installed[TYPESCRIPT_PACKAGE_NAME] =
                            Some(call.latest_typescript_version)
            /\ pc = "ts_install" =>
                    call.installed_typescript_version
                        # Some(call.latest_typescript_version)

\* a resolution call that installed typescript for an unparsable manifest
C9_Witness ==
    /\ Succeeded /\ Malformed(call.worktree)
    /\ Installs(TYPESCRIPT_PACKAGE_NAME) # {}

----------------------------------------------------------------------------
(* C10 *)

\* the slow path is past lines 58-80
PastServerCheck == pc \notin {"server_version", "install_server"}

\* C10: on the slow path an install of @vue/language-server is attempted if
\* and only if the binary was absent at the start of the call or the
\* installed-version query answered something other than the pinned version
\* (not installed included); every such install asks for "2.2.8".
C10_ServerInstallTrigger ==
    (Resolution /\ call.path = "slow") =>
        /\ PastServerCheck =>
            (call.server_install # "not_run"
                <=> \/ ~call.server_exists
                    \/ /\ call.server_query = "ok"
                       /\ call.server_installed_version # Some("2.2.8"))
        /\ \A i \in Installs(PACKAGE_NAME) : call.events[i].arg = "2.2.8"
        /\ (call.server_install # "not_run") <=> (Installs(PACKAGE_NAME) # {})

\* binary present, 3.0.0 installed: the pinned version was installed
C10_Witness ==
    /\ Returned /\ call.path = "slow" /\ call.server_exists
    /\ call.server_installed_version = Some("3.0.0")
    /\ Issued(Install(PACKAGE_NAME, "2.2.8"))
    /\ installed[PACKAGE_NAME] = Some("2.2.8")

----------------------------------------------------------------------------
(* C11 *)

Asked(kind, pkg) == {i \in EventsOf(pkg) : call.events[i].kind = kind}

\* C11: within one resolution call, for each of the three packages, the
\* install is invoked at most once and each registry query
\* (installed_version, latest_version) is issued at most once, whether the
\* call succeeds or fails.
C11_NoRetries ==
    Resolution =>
        \A pkg \in Packages, kind \in RegistryKinds :
            Cardinality(Asked(kind, pkg)) <= 1

\* a fast-path call that asked all it can ask about typescript and the
\* plugin, and failed on the plugin's install
C11_Witness ==
    /\ Returned /\ call.result = Err("install") /\ call.ts_plugin = "err"
    /\ \A kind \in RegistryKinds :
        /\ Cardinality(Asked(kind, TS_PLUGIN_PACKAGE_NAME)) = 1
        /\ Cardinality(Asked(kind, TYPESCRIPT_PACKAGE_NAME)) = 1

----------------------------------------------------------------------------
(* C12 *)

LabelCallDone == call.op = "label_for_completion" /\ pc = "done"

TypeKinds == {"Class", "Interface", "Constructor", "Variable"}
ConstantKinds == {"Constant"}
FunctionKinds == {"Function", "Method"}
TagKinds == {"Property", "Field", "Value"}
KeywordKinds == {"Keyword"}
LabelledKinds ==
    TypeKinds \cup ConstantKinds \cup FunctionKinds \cup TagKinds \cup KeywordKinds

\* the table of the claim
TableHighlight(kind) ==
    CASE kind \in TypeKinds -> "type"
      [] kind \in ConstantKinds -> "constant"
      [] kind \in FunctionKinds -> "function"
      [] kind \in TagKinds -> "tag"
      [] kind \in KeywordKinds -> "keyword"

\* the number of bytes of a string: one per character, one more for each
\* two-byte character
Bytes(str) == Len(str) + Cardinality({i \in 1..Len(str) : str[i] # "a"})

\* C12: the label mapper is a fixed total table (Class, Interface,
\* Constructor, Variable: "type"; Constant: "constant"; Function, Method:
\* "function"; Property, Field, Value: "tag"; Keyword: "keyword"); any other
\* kind, and a completion without kind, gives no label.  A label has one
\* span (the name, highlighted) without detail and three spans (name, one
\* space, detail) with detail, and its filter range is 0..length of the
\* name (String::len, the length in bytes).
C12_LabelTable ==
    LabelCallDone =>
        LET c == call.completion
            out == call.code_label
        IN /\ (out = None) <=> (c.kind = None \/ c.kind[1] \notin LabelledKinds)
           /\ out # None =>
                /\ out[1].spans[1] =
                      [text |-> c.label,
                       highlight_name |-> Some(TableHighlight(c.kind[1]))]
                /\ c.detail = None => Len(out[1].spans) = 1
                /\ c.detail # None =>
                      /\ Len(out[1].spans) = 3
                      /\ out[1].spans[2] = [text |-> <<" ">>, highlight_name |-> None]
                      /\ out[1].spans[3] = [text |-> c.detail[1], highlight_name |-> None]
                /\ out[1].filter_range = [start |-> 0, end |-> Bytes(c.label)]

\* a variable with detail and a two-byte character in its name
C12_Witness ==
    /\ LabelCallDone
    /\ call.completion = [kind |-> Some("Variable"), label |-> <<"a", "e'">>,
                          detail |-> Some(<<"a", "a">>)]
    /\ call.code_label # None
    /\ Len(call.code_label[1].spans) = 3
    /\ call.code_label[1].spans[1].highlight_name = Some("type")
    /\ call.code_label[1].filter_range.end = 3

----------------------------------------------------------------------------
(* C13 *)

EmitterCallDone == (InitOptionsCall \/ WorkspaceConfigCall) /\ pc = "done"

\* variant A and variant B
RecognizedTargets == {"typescript-language-server", "vtsls"}

\* C13, as stated: an emitter call returns None, without error and without
\* reading the manifest, for every target that is not one of the two
\* recognized identifiers, and produces a payload for both recognized
\* identifiers whichever of the two entry points is called.
C13_BothTargetsBothEntryPoints ==
    EmitterCallDone =>
        /\ call.target \notin RecognizedTargets =>
                call.result = Ok(None) /\ ~Issued(ReadManifest)
        /\ (call.target \in RecognizedTargets /\ WellFormed(call.worktree)) =>
                call.result.ok /\ call.result.val # None

\* C13, amended: each entry point customizes one target only: additional
\* initialization options "typescript-language-server", additional workspace
\* configuration "vtsls".  For every other pair of entry point and target,
\* the other recognized identifier included, the call returns None without
\* error and without reading the manifest; for its own target it reads the
\* manifest and, when that is well formed, produces the payload of its shape.
C13_OneTargetPerEntryPoint ==
    EmitterCallDone =>
        /\ ~RecognizedEmitterCall =>
                call.result = Ok(None) /\ call.events = <<>>
        /\ RecognizedEmitterCall =>
                /\ Issued(ReadManifest)
                /\ WellFormed(call.worktree) =>
                      /\ call.result.ok
                      /\ call.result.val # None
                      /\ DOMAIN call.result.val[1] =
                            IF InitOptionsCall THEN {"plugins"} ELSE {"vtsls"}

\* additional initialization options asked about vtsls
C13_Witness ==
    /\ EmitterCallDone
    /\ InitOptionsCall
    /\ call.target = "vtsls"
    /\ WellFormed(call.worktree)
    /\ call.result = Ok(None)
    /\ call.events = <<>>

----------------------------------------------------------------------------
(* C14 *)

InitializationOptionsCall ==
    call.op = "language_server_initialization_options" /\ pc = "done"

NoOverride == ~call.settings.ok \/ call.settings.val.initialization_options = None

\* node_modules/typescript/lib under the current directory of the process, as
\* an absolute path of the platform
AbsoluteSdkPath ==
    IF os = "Windows"
    THEN "C:/ext/work/vue/node_modules/typescript/lib"
    ELSE "/ext/work/vue/node_modules/typescript/lib"

SdkPaths == {"node_modules/typescript/lib", AbsoluteSdkPath}

\* C14: language_server_initialization_options returns a payload always.
\* Without a host-level override it is { typescript: { tsdk: S }, vue: {
\* hybridMode: false } } with S the session's sdkPath at the time of the
\* call, which is the bundled relative default or the absolute
\* <cwd>/node_modules/typescript/lib; with an override it is the override,
\* verbatim.  The call leaves the session state as it found it.
C14_InitializationPayload ==
    InitializationOptionsCall =>
        /\ call.result.ok
        /\ call.result.val # None
        /\ NoOverride =>
              /\ call.result.val[1] =
                    [typescript |-> [tsdk |-> call.pre_tsdk],
                     vue |-> [hybridMode |-> FALSE]]
              /\ call.pre_tsdk \in SdkPaths
        /\ ~NoOverride =>
              call.result.val[1] = call.settings.val.initialization_options[1]
        /\ typescript_tsdk_path = call.pre_tsdk
        /\ did_find_server = call.pre_found

\* the default payload, asked for after an SDK step recorded the absolute path
C14_Witness ==
    /\ InitializationOptionsCall
    /\ NoOverride
    /\ call.settings.ok
    /\ call.result.val[1].typescript.tsdk = AbsoluteSdkPath
    /\ ~call.result.val[1].vue.hybridMode

----------------------------------------------------------------------------
(* C15 *)

\* what the last existence probe of the call found
LastProbeFoundBinary ==
    IF call.server_install = "not_run" THEN call.server_exists ELSE call.exists_after

\* C15: a resolution call never returns success while the binary is absent:
\* when it returns success the binary is on disk and the last existence
\* probe of the call found it; an install of the server that reported Ok and
\* left the binary absent ends the call with the "did not contain expected
\* path" error, serverLocated unchanged.
C15_SuccessMeansBinaryPresent ==
    Resolution =>
        /\ Succeeded => server_on_disk /\ LastProbeFoundBinary
        /\ (call.server_install = "ok" /\ ~call.exists_after) =>
              /\ pc = "done"
              /\ call.result = Err("missing_path")
              /\ did_find_server = call.pre_found

\* the install reported Ok and the binary is not there
C15_Witness ==
    /\ Returned
    /\ Issued(Install(PACKAGE_NAME, PinnedVersion))
    /\ call.server_install = "ok"
    /\ ~call.exists_after
    /\ ~server_on_disk
    /\ call.result = Err("missing_path")

----------------------------------------------------------------------------
(* C16 *)

\* C16: on the slow path, a failure of the installed-version query for
\* @vue/language-server (issued only when the binary was found at the start
\* of the call) ends the call with that error: no install of any package is
\* attempted and serverLocated keeps its value, although the binary is on
\* disk.  When the binary was absent at the start of the call the query is
\* not issued and the install of the server follows the first status report
\* directly.
C16_ServerQueryErrorPropagates ==
    (Resolution /\ call.path = "slow") =>
        /\ call.server_query = "err" =>
              /\ call.server_exists /\ server_on_disk
              /\ pc = "done"
              /\ call.result = Err("registry")
              /\ \A pkg \in Packages : Installs(pkg) = {}
              /\ did_find_server = call.pre_found
        /\ (call.server_exists /\ PastServerCheck) =>
              call.events[2] = QueryInstalled(PACKAGE_NAME)
        /\ ~call.server_exists =>
              /\ call.server_query = "not_run"
              /\ ~Issued(QueryInstalled(PACKAGE_NAME))
              /\ PastServerCheck =>
                    /\ call.events[2] = Status("Downloading")
                    /\ call.events[3] = Install(PACKAGE_NAME, PinnedVersion)

\* the query failed with the binary on disk
C16_Witness ==
    /\ Returned
    /\ call.path = "slow"
    /\ call.server_exists /\ server_on_disk
    /\ call.server_query = "err"
    /\ call.result = Err("registry")
    /\ ~did_find_server

----------------------------------------------------------------------------
(* C17 *)

OtherEntryPoints ==
    {"language_server_initialization_options",
     "language_server_additional_initialization_options",
     "language_server_additional_workspace_configuration",
     "label_for_completion"}

\* one step, as serverLocated may take it
ServerLocatedStep ==
    /\ did_find_server => did_find_server'
    /\ did_find_server' # did_find_server =>
          /\ call'.op = "server_script_path"
          /\ call'.path = "slow"
          /\ pc' = "done"
          /\ call'.result = Ok(SERVER_PATH)
          /\ call'.server_query # "err"
          /\ LastProbeFoundBinary'
          /\ call'.sdk = "ok"
    /\ (call'.op = "server_script_path" /\ pc' = "done" /\ ~call'.result.ok) =>
          /\ did_find_server' = did_find_server
          /\ did_find_server' = call'.pre_found
    /\ call'.op \in OtherEntryPoints =>
          /\ did_find_server' = did_find_server
          /\ did_find_server' = call'.pre_found

\* C17: serverLocated starts false; it never goes from true to false; it goes
\* from false to true only in the step that ends a slow-path resolution call
\* with success, the server check and the SDK step having passed; a
\* resolution call that returns an error, and every configuration and label
\* call, leaves it as it was.
C17_ServerLocatedMonotonic ==
    ~did_find_server /\ [][ServerLocatedStep]_vars

\* serverLocated was earned by the call that just returned
C17_Witness ==
    /\ Returned
    /\ call.path = "slow"
    /\ ~call.pre_found
    /\ call.result = Ok(SERVER_PATH)
    /\ did_find_server

----------------------------------------------------------------------------
(* C18 *)

SdkStepRan == call.op = "server_script_path" /\ call.sdk \in {"ok", "err"}

\* the SDK step asked both registry questions and installed what was missing
SdkStepCompleted ==
    /\ SdkStepRan /\ call.sdk = "ok"
    /\ Issued(QueryInstalled(TYPESCRIPT_PACKAGE_NAME))
    /\ Issued(QueryLatest(TYPESCRIPT_PACKAGE_NAME))
    /\ call.installed_typescript_version # Some(call.latest_typescript_version) =>
          Issued(Install(TYPESCRIPT_PACKAGE_NAME, call.latest_typescript_version))

\* one step, as sdkPath may take it
SdkPathStep ==
    /\ typescript_tsdk_path' \in SdkPaths'
    /\ typescript_tsdk_path = AbsoluteSdkPath =>
          typescript_tsdk_path' = AbsoluteSdkPath
    /\ typescript_tsdk_path' # typescript_tsdk_path =>
          /\ typescript_tsdk_path' = AbsoluteSdkPath'
          /\ SdkStepCompleted'
          /\ ~Declares(call'.worktree, TYPESCRIPT_PACKAGE_NAME)
    /\ (SdkStepRan' /\ call'.sdk = "ok") =>
          typescript_tsdk_path' =
              IF Declares(call'.worktree, TYPESCRIPT_PACKAGE_NAME)
              THEN call'.pre_tsdk
              ELSE AbsoluteSdkPath'
    /\ (SdkStepRan' /\ call'.sdk = "err") =>
          /\ typescript_tsdk_path' = typescript_tsdk_path
          /\ typescript_tsdk_path' = call'.pre_tsdk

\* C18: sdkPath is the relative default node_modules/typescript/lib at the
\* start and only ever that or the absolute <cwd>/node_modules/typescript/lib.
\* It is written, with the absolute value, exactly when an SDK step completes
\* its registry queries and the install they call for without error, for a
\* manifest that does not declare typescript (one that cannot be read or
\* parsed included); an SDK step that fails leaves it unchanged; an SDK step
\* for a manifest that declares typescript leaves it unchanged; once absolute
\* it stays absolute.
C18_SdkPathTwoValues ==
    typescript_tsdk_path = "node_modules/typescript/lib" /\ [][SdkPathStep]_vars

\* the absolute path survives a call whose manifest declares typescript
C18_Witness ==
    /\ Returned
    /\ call.sdk = "ok"
    /\ Declares(call.worktree, TYPESCRIPT_PACKAGE_NAME)
    /\ call.pre_tsdk = AbsoluteSdkPath
    /\ typescript_tsdk_path = AbsoluteSdkPath

----------------------------------------------------------------------------
(* C19 *)

StatusReports == {i \in 1..Len(call.events) : call.events[i].kind = "status"}
Reports(s) == {i \in 1..Len(call.events) : call.events[i] = Status(s)}

\* C19: a resolution call takes the fast path if and only if serverLocated
\* was true and the binary existed at the start of the call, and then
\* reports no installation status.  Otherwise, the case of a binary that
\* vanished after an earlier success included, its first act is the one
\* report of CheckingForUpdate, ahead of every registry query and install;
\* it reports Downloading if and only if it attempts an install of
\* @vue/language-server, once, immediately before that attempt.
C19_PathAndStatusOrder ==
    (Resolution /\ pc # "idle") =>
        /\ call.path \in {"fast", "slow"}
        /\ call.path = "fast" <=> (call.pre_found /\ call.server_exists)
        /\ call.path = "fast" => StatusReports = {}
        /\ call.path = "slow" =>
              /\ Reports("CheckingForUpdate") = {1}
              /\ StatusReports = Reports("CheckingForUpdate") \cup Reports("Downloading")
              /\ Cardinality(Reports("Downloading")) <= 1
              /\ \A i \in Reports("Downloading") :
                    /\ i < Len(call.events)
                    /\ call.events[i + 1] = Install(PACKAGE_NAME, PinnedVersion)
              /\ \A i \in Installs(PACKAGE_NAME) :
                    i - 1 \in Reports("Downloading")
              /\ (call.server_install # "not_run") <=> (Installs(PACKAGE_NAME) # {})

\* serverLocated was set, the binary is gone: the slow path, with a download
C19_Witness ==
    /\ Returned
    /\ call.pre_found
    /\ ~call.server_exists
    /\ call.path = "slow"
    /\ call.events[1] = Status("CheckingForUpdate")
    /\ call.events[2] = Status("Downloading")
    /\ call.events[3] = Install(PACKAGE_NAME, PinnedVersion)

====
